---- MODULE Spec2Model ----
(***************************************************************************)
(* State-machine model of the thumbnail designer                           *)
(* (src/components/ThumbnailDesigner.tsx): the React state of the          *)
(* component (config, textLayers, imageLayers, selection, previewScale),   *)
(* the Konva node under a pointer gesture, the pending file reads and the  *)
(* last file handed to the browser by the export handler.                  *)
(*                                                                         *)
(* Units.  Lengths are integer canvas pixels.  Every quantity the code     *)
(* keeps as a fraction of one (previewScale, an image layer's scale and    *)
(* opacity, a shadow's opacity, a Konva node's scaleX) is kept in          *)
(* hundredths, so 0.45 is 45 and the factor 1 is 100.  A product or a      *)
(* quotient that JavaScript computes in floating point is computed on      *)
(* these integers and rounded towards minus infinity.                      *)
(* Strings the code takes apart or puts together (text, label, file name)  *)
(* are sequences of one-character strings.                                 *)
(***************************************************************************)
EXTENDS Integers, Sequences, FiniteSets, TLC

VARIABLES
  previewScale,   \* useState(0.45), in hundredths
  config,         \* useState<CanvasConfig>
  textLayers,     \* useState<TextLayer[]>
  imageLayers,    \* useState<ImageLayer[]>
  selection,      \* useState<Selection>
  nextId,         \* the ids crypto.randomUUID() has not handed out yet: nextId, nextId+1, ...
  pending,        \* FileReader reads in flight, each with the closure of its onload
  gesture,        \* the Konva node under the pointer gesture in progress, if any
  download,       \* the last file handleExport handed to the browser, if any
  clock,          \* the last value Date.now() returned
  steps           \* how many commands were issued

vars == <<previewScale, config, textLayers, imageLayers, selection, nextId,
          pending, gesture, download, clock, steps>>

\* The scene of spec section 6, getScene().
scene == <<config, textLayers, imageLayers, selection>>

------------------------------------------------------------------------------
(* Bounds of the model *)

MaxSteps == 2       \* commands of one run: a layer added, duplicated or deleted, a
                    \* file picked, an input to a control, a gesture begun, an export
MaxMoves == 2       \* pointer moves of one gesture
MaxClock == 1       \* milliseconds that pass

------------------------------------------------------------------------------
(* Strings *)

LowerCase == <<"a","b","c","d","e","f","g","h","i","j","k","l","m",
               "n","o","p","q","r","s","t","u","v","w","x","y","z">>
UpperCase == <<"A","B","C","D","E","F","G","H","I","J","K","L","M",
               "N","O","P","Q","R","S","T","U","V","W","X","Y","Z">>

\* String.prototype.toUpperCase, one character
UpperChar(c) ==
  IF \E i \in 1..Len(LowerCase) : LowerCase[i] = c
    THEN UpperCase[CHOOSE i \in 1..Len(LowerCase) : LowerCase[i] = c]
    ELSE c

\* String.prototype.toUpperCase
toUpperCase(s) == [i \in 1..Len(s) |-> UpperChar(s[i])]

\* file.name.replace(/\.[^.]+$/, ""): drops the last ".ext" when ext is not empty
StripExtension(name) ==
  LET dots == {i \in 1..Len(name) : name[i] = "."}
  IN IF dots = {} THEN name
     ELSE LET last == CHOOSE i \in dots : \A j \in dots : j <= i
          IN IF last = Len(name) THEN name ELSE SubSeq(name, 1, last - 1)

Digits == <<"0","1","2","3","4","5","6","7","8","9">>
IsDigit(c) == \E d \in 1..Len(Digits) : Digits[d] = c
DigitValue(c) == (CHOOSE d \in 1..Len(Digits) : Digits[d] = c) - 1

RECURSIVE DecimalValue(_)
DecimalValue(s) ==
  IF s = <<>> THEN 0
  ELSE 10 * DecimalValue(SubSeq(s, 1, Len(s) - 1)) + DigitValue(s[Len(s)])

AllDigits(s) == s # <<>> /\ \A i \in 1..Len(s) : IsDigit(s[i])

\* Number(event.target.value) || 0 of the width and height inputs: the empty
\* string is 0, a string that is no number is NaN, and NaN || 0 is 0.
NumberOrZero(s) ==
  IF AllDigits(s) THEN DecimalValue(s)
  ELSE IF Len(s) > 1 /\ s[1] = "-" /\ AllDigits(Tail(s)) THEN 0 - DecimalValue(Tail(s))
  ELSE 0

CopySuffix == <<" ","C","o","p","y">>

------------------------------------------------------------------------------
(* Data *)

DEFAULT_SHADOW ==
  [color |-> "#000000", blur |-> 20, opacity |-> 60, offsetX |-> 8, offsetY |-> 8]

\* FONT_FAMILIES[0]
DefaultFont == [value |-> "Anton", defaultSize |-> 84]

FontValues == {"Anton", "Bebas Neue", "Impact", "Oswald", "Montserrat"}

\* the state useState<CanvasConfig> starts from
InitialConfig ==
  [width |-> 1280, height |-> 720, backgroundMode |-> "gradient",
   solidColor |-> "#111827", gradientStart |-> "#ff0033", gradientEnd |-> "#ffd300",
   gradientAngle |-> 32, showGrid |-> TRUE, showSafeZone |-> TRUE]

\* the one layer useState<TextLayer[]> starts from
InitialTextLayer(id) ==
  [id |-> id, type |-> "text",
   label |-> <<"P","r","i","m","a","r","y"," ","T","i","t","l","e">>,
   text |-> <<"K","I","L","L","E","R"," ","T","H","U","M","B","N","A","I","L","S">>,
   fontFamily |-> "Anton", fontSize |-> 168, fontStyle |-> "bold",
   fill |-> "#ffffff", stroke |-> "#000000", strokeWidth |-> 4, align |-> "left",
   uppercase |-> TRUE, rotation |-> 0, shadow |-> DEFAULT_SHADOW, x |-> 140, y |-> 180]

NoSelection == [type |-> "none", id |-> 0]

NoSize == [width |-> 0, height |-> 0]
NoGesture ==
  [kind |-> "none", type |-> "none", id |-> 0, x |-> 0, y |-> 0, rotation |-> 0,
   scaleX |-> 0, natural |-> NoSize, moves |-> 0, rejected |-> FALSE]

NoDownload == [name |-> <<>>, exported |-> FALSE]

------------------------------------------------------------------------------
(* The layer store *)

\* { ...layer, ...patch }
Spread(layer, patch) ==
  [f \in DOMAIN layer |-> IF f \in DOMAIN patch THEN patch[f] ELSE layer[f]]

\* layers.find((layer) => layer.id === id): the empty sequence is undefined
Find(layers, id) ==
  LET hits == {i \in 1..Len(layers) : layers[i].id = id}
  IN IF hits = {} THEN <<>>
     ELSE <<layers[CHOOSE i \in hits : \A j \in hits : i <= j]>>

\* a filter with the test the wrong way round: (layer) => layer.id === id
FilterKeepOnly(layers, id) ==
  LET Keep(layer) == layer.id = id
  IN SelectSeq(layers, Keep)

\* current.filter((layer) => layer.id !== id)
FilterOut(layers, id) ==
  LET Keep(layer) == layer.id # id
  IN SelectSeq(layers, Keep)

\* useMemo selectedLayer
selectedLayer ==
  IF selection.type = "none" THEN <<>>
  ELSE IF selection.type = "text" THEN Find(textLayers, selection.id)
  ELSE Find(imageLayers, selection.id)

\* an update by position: findIndex gives -1 for an id that is absent, and
\* position -1 is the last layer
updateLayerAtIndex(layers, id, patch) ==
  LET hits == {i \in 1..Len(layers) : layers[i].id = id}
      index == IF hits = {} THEN Len(layers) ELSE CHOOSE i \in hits : TRUE
  IN [i \in 1..Len(layers) |-> IF i = index THEN Spread(layers[i], patch) ELSE layers[i]]

\* layers.map((layer) => (layer.id === id ? updater(layer) : layer)), for the
\* updaters (layer) => ({ ...layer, ...patch }) and () => next
updateLayer(layers, id, patch) ==
  [i \in 1..Len(layers) |->
     IF layers[i].id = id THEN Spread(layers[i], patch) ELSE layers[i]]

\* the same update made in place on a shadow object that layers share: every
\* layer whose shadow is the one patched shows the patch
updateShadowShared(layers, id, patch) ==
  LET hit == Find(layers, id)
  IN [i \in 1..Len(layers) |->
        IF hit # <<>> /\ layers[i].shadow = hit[1].shadow
          THEN Spread(layers[i], [shadow |-> Spread(layers[i].shadow, patch)])
          ELSE layers[i]]

\* the same for the updater (layer) => ({ ...layer, shadow: { ...layer.shadow, ...patch } })
updateShadow(layers, id, patch) ==
  [i \in 1..Len(layers) |->
     IF layers[i].id = id
       THEN Spread(layers[i], [shadow |-> Spread(layers[i].shadow, patch)])
       ELSE layers[i]]

Init ==
  /\ previewScale = 45
  /\ config = InitialConfig
  /\ textLayers = <<InitialTextLayer(1)>>
  /\ imageLayers = <<>>
  /\ selection = NoSelection
  /\ nextId = 2
  /\ pending = <<>>
  /\ gesture = NoGesture
  /\ download = NoDownload
  /\ clock = 0
  /\ steps = 0

\* one more command fits the run
CanStep == steps < MaxSteps

\* pointer input (clicks on controls) is free: no gesture holds the pointer
PointerFree == gesture.kind = "none"

\* What is left of the gesture in progress once React has rendered the next
\* state: a node whose layer is gone is unmounted, and the Transformer is
\* rendered for the selected layer only, so both end the gesture with nothing
\* written.
GestureAfter(texts, images, sel) ==
  IF gesture.kind = "none" THEN gesture
  ELSE IF Find(IF gesture.type = "text" THEN texts ELSE images, gesture.id) = <<>>
    THEN NoGesture
  ELSE IF gesture.kind = "transform" /\ sel # [type |-> gesture.type, id |-> gesture.id]
    THEN NoGesture
  ELSE gesture

------------------------------------------------------------------------------
(* Selection, delete, duplicate *)

\* the buttons of the text and image layer lists
ClickTextButton(i) ==
  /\ PointerFree
  /\ i \in 1..Len(textLayers)
  /\ selection' = [type |-> "text", id |-> textLayers[i].id]
  /\ UNCHANGED <<previewScale, config, textLayers, imageLayers, nextId, pending,
                 gesture, download, clock, steps>>

ClickImageButton(i) ==
  /\ PointerFree
  /\ i \in 1..Len(imageLayers)
  /\ selection' = [type |-> "image", id |-> imageLayers[i].id]
  /\ UNCHANGED <<previewScale, config, textLayers, imageLayers, nextId, pending,
                 gesture, download, clock, steps>>

\* onClick / onTap of a node on the stage
ClickTextNode(i) ==
  /\ PointerFree
  /\ i \in 1..Len(textLayers)
  /\ selection' = [type |-> "text", id |-> textLayers[i].id]
  /\ UNCHANGED <<previewScale, config, textLayers, imageLayers, nextId, pending,
                 gesture, download, clock, steps>>

ClickImageNode(i) ==
  /\ PointerFree
  /\ i \in 1..Len(imageLayers)
  /\ selection' = [type |-> "image", id |-> imageLayers[i].id]
  /\ UNCHANGED <<previewScale, config, textLayers, imageLayers, nextId, pending,
                 gesture, download, clock, steps>>

\* a delete hotkey that, with nothing selected, takes the newest text layer
DeleteHotkeyDefaultsToLast ==
  /\ IF selection.type = "none"
       THEN /\ CanStep
            /\ steps' = steps + 1
            /\ textLayers' = SubSeq(textLayers, 1, Len(textLayers) - 1)
            /\ UNCHANGED <<imageLayers, selection>>
            /\ gesture' = GestureAfter(textLayers', imageLayers', selection')
       ELSE /\ CanStep
            /\ steps' = steps + 1
            /\ IF selection.type = "text"
                 THEN /\ textLayers' = FilterOut(textLayers, selection.id)
                      /\ UNCHANGED imageLayers
                 ELSE /\ imageLayers' = FilterOut(imageLayers, selection.id)
                      /\ UNCHANGED textLayers
            /\ selection' = NoSelection
            /\ gesture' = GestureAfter(textLayers', imageLayers', selection')
  /\ UNCHANGED <<previewScale, config, nextId, pending, download, clock>>

\* the delete hotkey without its setSelection(null)
DeleteHotkeyKeepsSelection ==
  /\ IF selection.type = "none"
       THEN UNCHANGED <<textLayers, imageLayers, selection, gesture, steps>>
       ELSE /\ CanStep
            /\ steps' = steps + 1
            /\ IF selection.type = "text"
                 THEN /\ textLayers' = FilterOut(textLayers, selection.id)
                      /\ UNCHANGED imageLayers
                 ELSE /\ imageLayers' = FilterOut(imageLayers, selection.id)
                      /\ UNCHANGED textLayers
            /\ UNCHANGED selection
            /\ gesture' = GestureAfter(textLayers', imageLayers', selection')
  /\ UNCHANGED <<previewScale, config, nextId, pending, download, clock>>

\* useHotkeys("delete,backspace")
DeleteHotkey ==
  /\ IF selection.type = "none"
       THEN UNCHANGED <<textLayers, imageLayers, selection, gesture, steps>>
       ELSE /\ CanStep
            /\ steps' = steps + 1
            /\ IF selection.type = "text"
                 THEN /\ textLayers' = FilterOut(textLayers, selection.id)
                      /\ UNCHANGED imageLayers
                 ELSE /\ imageLayers' = FilterOut(imageLayers, selection.id)
                      /\ UNCHANGED textLayers
            /\ selection' = NoSelection
            /\ gesture' = GestureAfter(textLayers', imageLayers', selection')
  /\ UNCHANGED <<previewScale, config, nextId, pending, download, clock>>

\* a clone that keeps the id the spread copied
CloneKeepsId(layer, id) ==
  Spread(layer, [label |-> layer.label \o CopySuffix, x |-> layer.x + 40, y |-> layer.y + 40])

\* a clone that is moved along one axis only
CloneMovedAlongX(layer, id) ==
  Spread(layer, [id |-> id, label |-> layer.label \o CopySuffix, x |-> layer.x + 40])

\* the clone of useHotkeys("mod+d")
Clone(layer, id) ==
  Spread(layer, [id |-> id, label |-> layer.label \o CopySuffix,
                 x |-> layer.x + 40, y |-> layer.y + 40])

\* the duplicate hotkey without its setSelection of the clone
DuplicateHotkeyKeepsSelection ==
  /\ IF selectedLayer = <<>>
       THEN UNCHANGED <<textLayers, imageLayers, selection, nextId, gesture, steps>>
       ELSE /\ CanStep
            /\ steps' = steps + 1
            /\ LET clone == Clone(selectedLayer[1], nextId)
               IN IF selectedLayer[1].type = "text"
                    THEN /\ textLayers' = Append(textLayers, clone)
                         /\ UNCHANGED imageLayers
                    ELSE /\ imageLayers' = Append(imageLayers, clone)
                         /\ UNCHANGED textLayers
            /\ UNCHANGED selection
            /\ nextId' = nextId + 1
            /\ gesture' = GestureAfter(textLayers', imageLayers', selection')
  /\ UNCHANGED <<previewScale, config, pending, download, clock>>

\* mod+d putting the clone of a text layer into the image collection
DuplicateHotkeyWrongCollection ==
  /\ IF selectedLayer = <<>>
       THEN UNCHANGED <<textLayers, imageLayers, selection, nextId, gesture, steps>>
       ELSE /\ CanStep
            /\ steps' = steps + 1
            /\ LET clone == Clone(selectedLayer[1], nextId)
               IN /\ imageLayers' = Append(imageLayers, clone)
                  /\ selection' = [type |-> "image", id |-> clone.id]
                  /\ UNCHANGED textLayers
            /\ nextId' = nextId + 1
            /\ gesture' = GestureAfter(textLayers', imageLayers', selection')
  /\ UNCHANGED <<previewScale, config, pending, download, clock>>

\* useHotkeys("mod+d")
DuplicateHotkey ==
  /\ IF selectedLayer = <<>>
       THEN UNCHANGED <<textLayers, imageLayers, selection, nextId, gesture, steps>>
       ELSE /\ CanStep
            /\ steps' = steps + 1
            /\ LET clone == Clone(selectedLayer[1], nextId)
               IN IF selectedLayer[1].type = "text"
                    THEN /\ textLayers' = Append(textLayers, clone)
                         /\ selection' = [type |-> "text", id |-> clone.id]
                         /\ UNCHANGED imageLayers
                    ELSE /\ imageLayers' = Append(imageLayers, clone)
                         /\ selection' = [type |-> "image", id |-> clone.id]
                         /\ UNCHANGED textLayers
            /\ nextId' = nextId + 1
            /\ gesture' = GestureAfter(textLayers', imageLayers', selection')
  /\ UNCHANGED <<previewScale, config, pending, download, clock>>

------------------------------------------------------------------------------
(* Creating layers *)

\* the layer handleAddText builds
NewTextLayer(id, cfg) ==
  [id |-> id, type |-> "text",
   label |-> <<"N","e","w"," ","T","e","x","t">>,
   text |-> <<"N","e","w"," ","H","o","o","k">>,
   fontFamily |-> DefaultFont.value, fontSize |-> DefaultFont.defaultSize,
   fontStyle |-> "bold", fill |-> "#ffffff", stroke |-> "#000000", strokeWidth |-> 4,
   align |-> "center", uppercase |-> TRUE, rotation |-> 0, shadow |-> DEFAULT_SHADOW,
   x |-> cfg.width \div 3, y |-> cfg.height \div 2]

\* Add Text Layer putting the new layer in front: [newLayer, ...layers]
handleAddTextPrepending ==
  /\ PointerFree
  /\ CanStep
  /\ textLayers' = <<NewTextLayer(nextId, config)>> \o textLayers
  /\ selection' = [type |-> "text", id |-> nextId]
  /\ nextId' = nextId + 1
  /\ steps' = steps + 1
  /\ UNCHANGED <<previewScale, config, imageLayers, pending, gesture, download, clock>>

handleAddText ==
  /\ PointerFree
  /\ CanStep
  /\ textLayers' = Append(textLayers, NewTextLayer(nextId, config))
  /\ selection' = [type |-> "text", id |-> nextId]
  /\ nextId' = nextId + 1
  /\ steps' = steps + 1
  /\ UNCHANGED <<previewScale, config, imageLayers, pending, gesture, download, clock>>

\* the files the picker can hand over; data is what readAsDataURL makes of the bytes
Files ==
  { [name |-> <<"c","a","t",".","p","n","g">>, data |-> "data:image/png;cat"],
    [name |-> <<"n","o","t","e","s">>, data |-> "data:text/plain;notes"] }

NoFile == [name |-> <<>>, data |-> ""]

\* useImage(src): the decoded image, or undefined (the empty sequence) when the
\* data is not an image the browser can decode
useKonvaImage(src) ==
  IF src = "data:image/png;cat" THEN <<[width |-> 200, height |-> 100]>> ELSE <<>>

\* handleImageUpload up to reader.readAsDataURL(file): the onload closure keeps
\* the file and the config of the render the handler belongs to
handleImageUpload(file) ==
  /\ PointerFree
  /\ IF file = NoFile
       THEN UNCHANGED <<pending, steps>>
       ELSE /\ CanStep
            /\ pending' = Append(pending, [file |-> file, config |-> config])
            /\ steps' = steps + 1
  /\ UNCHANGED <<previewScale, config, textLayers, imageLayers, selection, nextId,
                 gesture, download, clock>>

\* the layer reader.onload builds
NewImageLayer(id, file, cfg) ==
  [id |-> id, type |-> "image", label |-> StripExtension(file.name), src |-> file.data,
   scale |-> 60, rotation |-> 0, opacity |-> 100,
   x |-> cfg.width \div 2, y |-> cfg.height \div 2,
   shadow |-> Spread(DEFAULT_SHADOW, [opacity |-> 40])]

RemoveAt(seq, i) == SubSeq(seq, 1, i - 1) \o SubSeq(seq, i + 1, Len(seq))

\* reader.onload without its setSelection of the new layer
ReaderLoadKeepingSelection(i) ==
  /\ i \in 1..Len(pending)
  /\ imageLayers' = Append(imageLayers, NewImageLayer(nextId, pending[i].file, pending[i].config))
  /\ UNCHANGED selection
  /\ nextId' = nextId + 1
  /\ pending' = RemoveAt(pending, i)
  /\ gesture' = GestureAfter(textLayers, imageLayers', selection')
  /\ UNCHANGED <<previewScale, config, textLayers, download, clock, steps>>

\* reader.onload with setImageLayers([...imageLayers, newLayer]) on the array
\* of the render the handler was made in, taken here as the first render, where
\* the collection is empty
ReaderLoadFromStaleArray(i) ==
  /\ i \in 1..Len(pending)
  /\ imageLayers' = <<NewImageLayer(nextId, pending[i].file, pending[i].config)>>
  /\ selection' = [type |-> "image", id |-> nextId]
  /\ nextId' = nextId + 1
  /\ pending' = RemoveAt(pending, i)
  /\ gesture' = GestureAfter(textLayers, imageLayers', selection')
  /\ UNCHANGED <<previewScale, config, textLayers, download, clock, steps>>

\* reader.onload
ReaderLoad(i) ==
  /\ i \in 1..Len(pending)
  /\ imageLayers' = Append(imageLayers, NewImageLayer(nextId, pending[i].file, pending[i].config))
  /\ selection' = [type |-> "image", id |-> nextId]
  /\ nextId' = nextId + 1
  /\ pending' = RemoveAt(pending, i)
  /\ gesture' = GestureAfter(textLayers, imageLayers', selection')
  /\ UNCHANGED <<previewScale, config, textLayers, download, clock, steps>>

\* the read fails: the reader has no onerror handler
ReaderError(i) ==
  /\ i \in 1..Len(pending)
  /\ pending' = RemoveAt(pending, i)
  /\ UNCHANGED <<previewScale, config, textLayers, imageLayers, selection, nextId,
                 gesture, download, clock, steps>>

------------------------------------------------------------------------------
(* Canvas settings and zoom *)

CanEdit == PointerFree /\ CanStep

\* setConfig((prev) => ({ ...prev, ...patch }))
setConfig(patch) ==
  /\ CanEdit
  /\ config' = Spread(config, patch)
  /\ steps' = steps + 1
  /\ UNCHANGED <<previewScale, textLayers, imageLayers, selection, nextId, pending,
                 gesture, download, clock>>

\* what can be typed into the width and height inputs
DimensionInputs == { <<>>, <<"-","5">>, <<"1","9","2","0">> }
ColorInputs == { "#00ff00" }
AngleInputs == { -180, 180 }       \* the ends of the range input
ZoomInputs == { 20, 100 }          \* the ends of the range input

Palettes ==
  { [name |-> "Energy", start |-> "#ff0033", end |-> "#ffb347"],
    [name |-> "Tech", start |-> "#0ea5e9", end |-> "#22d3ee"],
    [name |-> "Mystery", start |-> "#6366f1", end |-> "#0f172a"],
    [name |-> "Success", start |-> "#22c55e", end |-> "#facc15"] }

WidthInput(raw) == setConfig([width |-> NumberOrZero(raw)])
HeightInput(raw) == setConfig([height |-> NumberOrZero(raw)])
SolidFillButton == setConfig([backgroundMode |-> "solid"])
GradientFillButton == setConfig([backgroundMode |-> "gradient"])
SolidColorInput(c) == config.backgroundMode = "solid" /\ setConfig([solidColor |-> c])
GradientStartInput(c) == config.backgroundMode = "gradient" /\ setConfig([gradientStart |-> c])
GradientEndInput(c) == config.backgroundMode = "gradient" /\ setConfig([gradientEnd |-> c])
GradientAngleInput(a) == config.backgroundMode = "gradient" /\ setConfig([gradientAngle |-> a])
GridCheckbox == setConfig([showGrid |-> ~config.showGrid])
SafeZoneCheckbox == setConfig([showSafeZone |-> ~config.showSafeZone])
PaletteButton(p) ==
  setConfig([backgroundMode |-> "gradient", gradientStart |-> p.start, gradientEnd |-> p.end])

\* a zoom that resizes the canvas instead of scaling the view of it
ZoomInputResizingCanvas(z) ==
  /\ CanEdit
  /\ previewScale' = z
  /\ config' = Spread(config, [width |-> (config.width * z) \div 100,
                               height |-> (config.height * z) \div 100])
  /\ steps' = steps + 1
  /\ UNCHANGED <<textLayers, imageLayers, selection, nextId, pending,
                 gesture, download, clock>>

\* the zoom range input: setPreviewScale(Number(event.target.value))
ZoomInput(z) ==
  /\ CanEdit
  /\ previewScale' = z
  /\ steps' = steps + 1
  /\ UNCHANGED <<config, textLayers, imageLayers, selection, nextId, pending,
                 gesture, download, clock>>

------------------------------------------------------------------------------
(* The inspector, rendered for selectedLayer *)

TextInspector == selectedLayer # <<>> /\ selectedLayer[1].type = "text"
ImageInspector == selectedLayer # <<>> /\ selectedLayer[1].type # "text"

\* a text control: updateTextLayer(selectedLayer.id, (layer) => ({ ...layer, ...patch }))
TextControl(patch) ==
  /\ CanEdit
  /\ TextInspector
  /\ textLayers' = updateLayer(textLayers, selectedLayer[1].id, patch)
  /\ steps' = steps + 1
  /\ UNCHANGED <<previewScale, config, imageLayers, selection, nextId, pending,
                 gesture, download, clock>>

TextShadowControl(patch) ==
  /\ CanEdit
  /\ TextInspector
  /\ textLayers' = updateShadow(textLayers, selectedLayer[1].id, patch)
  /\ steps' = steps + 1
  /\ UNCHANGED <<previewScale, config, imageLayers, selection, nextId, pending,
                 gesture, download, clock>>

\* an image control: updateImageLayer(selectedLayer.id, (layer) => ({ ...layer, ...patch }))
ImageControl(patch) ==
  /\ CanEdit
  /\ ImageInspector
  /\ imageLayers' = updateLayer(imageLayers, selectedLayer[1].id, patch)
  /\ steps' = steps + 1
  /\ UNCHANGED <<previewScale, config, textLayers, selection, nextId, pending,
                 gesture, download, clock>>

ImageShadowControl(patch) ==
  /\ CanEdit
  /\ ImageInspector
  /\ imageLayers' = updateShadow(imageLayers, selectedLayer[1].id, patch)
  /\ steps' = steps + 1
  /\ UNCHANGED <<previewScale, config, textLayers, selection, nextId, pending,
                 gesture, download, clock>>

CopyInputs == { <<"h","i">> }
FontInputs == { "Impact" }
FontSizeInputs == { 24, 260 }            \* the ends of each range input
StrokeWidthInputs == { 0, 12 }
AlignButtons == { "left", "center", "right" }
TextRotationInputs == { -45, 45 }
ShadowOpacityInputs == { 0, 100 }
TextBlurInputs == { 0, 40 }
OpacityInputs == { 10, 100 }
ScaleInputs == { 20, 250 }
ImageRotationInputs == { -60, 60 }
ImageBlurInputs == { 0, 50 }

CopyInput(v) == TextControl([text |-> v])
FontSelect(v) == TextControl([fontFamily |-> v])
SizeInput(v) == TextControl([fontSize |-> v])
FillInput(v) == TextControl([fill |-> v])
StrokeInput(v) == TextControl([stroke |-> v])
StrokeWeightInput(v) == TextControl([strokeWidth |-> v])
AlignButton(v) == TextControl([align |-> v])
UppercaseCheckbox == TextInspector /\ TextControl([uppercase |-> ~selectedLayer[1].uppercase])
BoldCheckbox ==
  /\ TextInspector
  /\ TextControl([fontStyle |-> IF selectedLayer[1].fontStyle = "bold" THEN "normal" ELSE "bold"])
TextRotationInput(v) == TextControl([rotation |-> v])
TextShadowStrengthInput(v) == TextShadowControl([opacity |-> v])
TextShadowBlurInput(v) == TextShadowControl([blur |-> v])

OpacityInput(v) == ImageControl([opacity |-> v])
ScaleInput(v) == ImageControl([scale |-> v])
ImageRotationInput(v) == ImageControl([rotation |-> v])
ImageShadowInput(v) == ImageShadowControl([opacity |-> v])
ImageBlurInput(v) == ImageShadowControl([blur |-> v])

------------------------------------------------------------------------------
(* Pointer gestures on the stage *)

\* where the pointer can take a node
Positions == { [x |-> 10, y |-> 20] }
\* the scaleX a corner handle can ask for (below 0 when it is dragged past the
\* opposite side), and the angle the rotater can ask for
ScaleProposals == { -100, 5, 40, 100, 200 }
RotationProposals == { 30, 90 }
\* the size of a node at scale 1: the pixels of the decoded image, the measured text
NaturalSizes == { [width |-> 200, height |-> 100], [width |-> 2000, height |-> 1000] }

CanStartGesture == PointerFree /\ CanStep

\* the layer prop of the node the gesture is on, as last rendered
GestureLayer ==
  Find(IF gesture.type = "text" THEN textLayers ELSE imageLayers, gesture.id)

\* the attributes react-konva gives the node of a layer; a text node has no
\* scale prop and its scale is put back to 1 after every transform.  moves
\* counts the pointer moves of the gesture and rejected records whether
\* boundBoxFunc turned down the last one: both are bookkeeping of the model.
NodeOf(layer, kind, natural) ==
  [kind |-> kind, type |-> layer.type, id |-> layer.id, x |-> layer.x, y |-> layer.y,
   rotation |-> layer.rotation,
   scaleX |-> IF layer.type = "text" THEN 100 ELSE layer.scale,
   natural |-> natural, moves |-> 0, rejected |-> FALSE]

\* every node is draggable, selected or not
TextDragStart(i) ==
  /\ CanStartGesture
  /\ i \in 1..Len(textLayers)
  /\ gesture' = NodeOf(textLayers[i], "drag", NoSize)
  /\ steps' = steps + 1
  /\ UNCHANGED <<previewScale, config, textLayers, imageLayers, selection, nextId,
                 pending, download, clock>>

ImageDragStart(i) ==
  /\ CanStartGesture
  /\ i \in 1..Len(imageLayers)
  /\ gesture' = NodeOf(imageLayers[i], "drag", NoSize)
  /\ steps' = steps + 1
  /\ UNCHANGED <<previewScale, config, textLayers, imageLayers, selection, nextId,
                 pending, download, clock>>

\* a drag that writes the store on every pointer move
DragMoveCommitting(pos) ==
  /\ gesture.kind = "drag"
  /\ gesture.moves < MaxMoves
  /\ gesture' = [gesture EXCEPT !.x = pos.x, !.y = pos.y, !.moves = @ + 1]
  /\ IF gesture.type = "text"
       THEN /\ textLayers' = updateLayer(textLayers, gesture.id, [x |-> pos.x, y |-> pos.y])
            /\ UNCHANGED imageLayers
       ELSE /\ imageLayers' = updateLayer(imageLayers, gesture.id, [x |-> pos.x, y |-> pos.y])
            /\ UNCHANGED textLayers
  /\ UNCHANGED <<previewScale, config, selection, nextId, pending, download, clock, steps>>

DragMove(pos) ==
  /\ gesture.kind = "drag"
  /\ gesture.moves < MaxMoves
  /\ gesture' = [gesture EXCEPT !.x = pos.x, !.y = pos.y, !.moves = @ + 1]
  /\ UNCHANGED <<previewScale, config, textLayers, imageLayers, selection, nextId,
                 pending, download, clock, steps>>

\* a drag end that commits the node as it stood when the drag started, its
\* rotation included, with the final position
handleDragEndWritingNode ==
  /\ gesture.kind = "drag"
  /\ LET layer == GestureLayer[1]
         next == Spread(layer, [x |-> gesture.x, y |-> gesture.y,
                                rotation |-> gesture.rotation])
     IN IF gesture.type = "text"
          THEN /\ textLayers' = updateLayer(textLayers, layer.id, next)
               /\ UNCHANGED imageLayers
          ELSE /\ imageLayers' = updateLayer(imageLayers, layer.id, next)
               /\ UNCHANGED textLayers
  /\ gesture' = NoGesture
  /\ UNCHANGED <<previewScale, config, selection, nextId, pending, download, clock, steps>>

\* handleDragEnd of TextLayerNode and of ImageLayerNode, with the onChange wired
\* to it: update*Layer(layer.id, () => ({ ...layer, x, y }))
handleDragEnd ==
  /\ gesture.kind = "drag"
  /\ LET layer == GestureLayer[1]
         next == Spread(layer, [x |-> gesture.x, y |-> gesture.y])
     IN IF gesture.type = "text"
          THEN /\ textLayers' = updateLayer(textLayers, layer.id, next)
               /\ UNCHANGED imageLayers
          ELSE /\ imageLayers' = updateLayer(imageLayers, layer.id, next)
               /\ UNCHANGED textLayers
  /\ gesture' = NoGesture
  /\ UNCHANGED <<previewScale, config, selection, nextId, pending, download, clock, steps>>

\* the Transformer is rendered for the selected layer only
TransformStart(natural) ==
  /\ CanStartGesture
  /\ selectedLayer # <<>>
  /\ gesture' = NodeOf(selectedLayer[1], "transform", natural)
  /\ steps' = steps + 1
  /\ UNCHANGED <<previewScale, config, textLayers, imageLayers, selection, nextId,
                 pending, download, clock>>

\* the box the Transformer draws round a node.  The boxes boundBoxFunc is given
\* are in absolute coordinates, the pixels of the scaled stage: the size of the
\* node times the scale of the Stage, which is previewScale.
BoxOf(node) ==
  [x |-> node.x, y |-> node.y, rotation |-> node.rotation,
   width |-> (node.natural.width * node.scaleX * previewScale) \div 10000,
   height |-> (node.natural.height * node.scaleX * previewScale) \div 10000]

\* a boundBoxFunc that turns a box down only when both sides are too short
ImageBoundBoxFuncBothSides(oldBox, newBox) ==
  IF newBox.width < 50 /\ newBox.height < 50 THEN oldBox ELSE newBox

\* boundBoxFunc of the Transformer of ImageLayerNode
ImageBoundBoxFunc(oldBox, newBox) ==
  IF newBox.width < 50 \/ newBox.height < 50 THEN oldBox ELSE newBox

\* boundBoxFunc of the Transformer of TextLayerNode
TextBoundBoxFunc(oldBox, newBox) ==
  IF newBox.width < 80 \/ newBox.height < 40 THEN oldBox ELSE newBox

\* the Transformer fits the node into the box boundBoxFunc returns
FitInto(node, box) ==
  [node EXCEPT !.x = box.x, !.y = box.y, !.rotation = box.rotation,
               !.scaleX = (box.width * 10000) \div (node.natural.width * previewScale)]

\* one pointer move of the Transformer: the box it proposes goes through boundBoxFunc
TransformMove(newBox) ==
  LET oldBox == BoxOf(gesture)
      box == IF gesture.type = "text" THEN TextBoundBoxFunc(oldBox, newBox)
             ELSE ImageBoundBoxFunc(oldBox, newBox)
  IN /\ gesture.kind = "transform"
     /\ gesture.moves < MaxMoves
     /\ gesture' = [FitInto(gesture, box) EXCEPT !.moves = @ + 1,
                                                 !.rejected = (box # newBox)]
     /\ UNCHANGED <<previewScale, config, textLayers, imageLayers, selection, nextId,
                    pending, download, clock, steps>>

\* a corner handle: a new scale, the anchor staying or moving with the corner
ResizeMove(s, pos) ==
  TransformMove(BoxOf([gesture EXCEPT !.scaleX = s, !.x = pos.x, !.y = pos.y]))

\* the rotater
RotateMove(angle) ==
  TransformMove(BoxOf([gesture EXCEPT !.rotation = angle]))

\* onTransformEnd of ImageLayerNode multiplying the scale of the node into the
\* stored one, as the text node does with its font size
ImageTransformEndCompounding ==
  /\ gesture.kind = "transform"
  /\ gesture.type = "image"
  /\ LET layer == GestureLayer[1]
         next == Spread(layer, [scale |-> (layer.scale * gesture.scaleX) \div 100,
                                rotation |-> gesture.rotation,
                                x |-> gesture.x, y |-> gesture.y])
     IN imageLayers' = updateLayer(imageLayers, layer.id, next)
  /\ gesture' = NoGesture
  /\ UNCHANGED <<previewScale, config, textLayers, selection, nextId, pending,
                 download, clock, steps>>

\* onTransformEnd of ImageLayerNode
ImageTransformEnd ==
  /\ gesture.kind = "transform"
  /\ gesture.type = "image"
  /\ LET layer == GestureLayer[1]
         next == Spread(layer, [scale |-> gesture.scaleX, rotation |-> gesture.rotation,
                                x |-> gesture.x, y |-> gesture.y])
     IN imageLayers' = updateLayer(imageLayers, layer.id, next)
  /\ gesture' = NoGesture
  /\ UNCHANGED <<previewScale, config, textLayers, selection, nextId, pending,
                 download, clock, steps>>

\* the factor of a node whose scale was left standing from the resize before:
\* the same factor is in the node twice
ResizedFontSizeTwice(fontSize, scale) ==
  LET scaled == (fontSize * scale * scale) \div 10000
  IN IF scaled > 10 THEN scaled ELSE 10

\* the product without the Math.max
ResizedFontSizeNoFloor(fontSize, scale) == (fontSize * scale) \div 100

\* Math.max(10, layer.fontSize * scale)
ResizedFontSize(fontSize, scale) ==
  LET scaled == (fontSize * scale) \div 100
  IN IF scaled > 10 THEN scaled ELSE 10

\* onTransformEnd of TextLayerNode
TextTransformEnd ==
  /\ gesture.kind = "transform"
  /\ gesture.type = "text"
  /\ LET layer == GestureLayer[1]
         next == Spread(layer, [fontSize |-> ResizedFontSize(layer.fontSize, gesture.scaleX),
                                x |-> gesture.x, y |-> gesture.y,
                                rotation |-> gesture.rotation])
     IN textLayers' = updateLayer(textLayers, layer.id, next)
  /\ gesture' = NoGesture
  /\ UNCHANGED <<previewScale, config, imageLayers, selection, nextId, pending,
                 download, clock, steps>>

------------------------------------------------------------------------------
(* The stage: what the component renders into Konva *)

\* The angles gradientPoints is computed for: the ends of the range input, the
\* initial angle and the eighths of the turn between them.
GradientAngles == { -180, -135, -90, -45, 0, 32, 45, 90, 135, 180 }

\* Math.cos((angle * Math.PI) / 180) and Math.sin of it, in hundred-thousandths,
\* rounded to the nearest
MathCos(angle) ==
  CASE angle \in {-180, 180} -> -100000
    [] angle \in {-135, 135} -> -70711
    [] angle \in {-90, 90} -> 0
    [] angle \in {-45, 45} -> 70711
    [] angle = 0 -> 100000
    [] angle = 32 -> 84805

MathSin(angle) ==
  CASE angle \in {-180, 0, 180} -> 0
    [] angle = -135 -> -70711
    [] angle = -90 -> -100000
    [] angle = -45 -> -70711
    [] angle = 32 -> 52992
    [] angle = 45 -> 70711
    [] angle = 90 -> 100000
    [] angle = 135 -> 70711

\* the whole part of Math.sqrt(n), found by bisection between low and high
RECURSIVE SqrtBetween(_, _, _)
SqrtBetween(n, low, high) ==
  IF high - low <= 1 THEN low
  ELSE LET mid == (low + high) \div 2
       IN IF mid * mid <= n THEN SqrtBetween(n, mid, high) ELSE SqrtBetween(n, low, mid)

MathSqrt(n) == SqrtBetween(n, 0, 46340)

\* gradientPoints with the sign of one term wrong: start.y takes + for -
gradientPointsSignSlip(angle, width, height) ==
  LET halfWidth == width
      halfHeight == height
      diagonal == MathSqrt(halfWidth * halfWidth + halfHeight * halfHeight)
      sin == MathSin(angle)
      cos == MathCos(angle)
  IN [start |-> [x |-> halfWidth - (diagonal * cos) \div 100000,
                 y |-> halfHeight + (diagonal * sin) \div 100000],
      end |-> [x |-> halfWidth + (diagonal * cos) \div 100000,
               y |-> halfHeight + (diagonal * sin) \div 100000]]

\* gradientPoints, in half pixels: width / 2 is width halves
gradientPoints(angle, width, height) ==
  LET halfWidth == width
      halfHeight == height
      diagonal == MathSqrt(halfWidth * halfWidth + halfHeight * halfHeight)
      sin == MathSin(angle)
      cos == MathCos(angle)
  IN [start |-> [x |-> halfWidth - (diagonal * cos) \div 100000,
                 y |-> halfHeight - (diagonal * sin) \div 100000],
      end |-> [x |-> halfWidth + (diagonal * cos) \div 100000,
               y |-> halfHeight + (diagonal * sin) \div 100000]]

\* useMemo backgroundRect
backgroundRect ==
  IF config.backgroundMode = "solid"
    THEN [kind |-> "background", width |-> config.width, height |-> config.height,
          fill |-> <<config.solidColor>>, angle |-> 0, points |-> <<>>]
    ELSE LET points == gradientPoints(config.gradientAngle, config.width, config.height)
         IN [kind |-> "background", width |-> config.width, height |-> config.height,
             fill |-> <<config.gradientStart, config.gradientEnd>>,
             angle |-> config.gradientAngle, points |-> <<points.start, points.end>>]

spacing == 120

\* (index + 1) * spacing for index < Math.floor(size / spacing), kept when < size
GridPositions(size) ==
  {p \in {k * spacing : k \in 1..(size \div spacing)} : p < size}

\* useMemo gridLines: null, or a Layer of one-pixel rects
gridLines ==
  IF ~config.showGrid THEN <<>>
  ELSE << <<[kind |-> "grid", vertical |-> GridPositions(config.width),
             horizontal |-> GridPositions(config.height)]>> >>

\* useMemo safeZoneRect: null, or a dashed rect 8% inside the canvas (in hundredths
\* of a pixel)
safeZoneRect ==
  IF ~config.showSafeZone THEN <<>>
  ELSE <<[kind |-> "safeZone", x |-> config.width * 8, y |-> config.height * 8,
          width |-> config.width * 100 - 2 * config.width * 8,
          height |-> config.height * 100 - 2 * config.height * 8]>>

\* what ImageLayerNode renders: the image and, when selected, its Transformer
ImageLayerNode(layer, isSelected) ==
  <<[kind |-> "image", layer |-> layer, image |-> useKonvaImage(layer.src)]>>
  \o (IF isSelected THEN <<[kind |-> "transformer", id |-> layer.id]>> ELSE <<>>)

\* a TextLayerNode that renders the stored text whatever the flag
TextLayerNodeVerbatim(layer, isSelected) ==
  <<[kind |-> "text", layer |-> layer, text |-> layer.text]>>
  \o (IF isSelected THEN <<[kind |-> "transformer", id |-> layer.id]>> ELSE <<>>)

\* what TextLayerNode renders: the text and, when selected, its Transformer
TextLayerNode(layer, isSelected) ==
  <<[kind |-> "text", layer |-> layer,
     text |-> IF layer.uppercase THEN toUpperCase(layer.text) ELSE layer.text]>>
  \o (IF isSelected THEN <<[kind |-> "transformer", id |-> layer.id]>> ELSE <<>>)

RECURSIVE Concat(_)
Concat(seqs) == IF seqs = <<>> THEN <<>> ELSE Head(seqs) \o Concat(Tail(seqs))

\* imageLayers.map(...) inside its Layer
ImageGroup ==
  Concat([i \in 1..Len(imageLayers) |->
            ImageLayerNode(imageLayers[i],
                           selection = [type |-> "image", id |-> imageLayers[i].id])])

\* textLayers.map(...) inside its Layer
TextGroup ==
  Concat([i \in 1..Len(textLayers) |->
            TextLayerNode(textLayers[i],
                          selection = [type |-> "text", id |-> textLayers[i].id])])

\* the stage with the text Layer put before the image Layer
StageTextFirst ==
  << <<backgroundRect>> >> \o gridLines \o <<TextGroup>> \o <<ImageGroup>> \o <<safeZoneRect>>

\* the children of <Stage>, bottom first: each a Konva Layer, a sequence of nodes
Stage ==
  << <<backgroundRect>> >> \o gridLines \o <<ImageGroup>> \o <<TextGroup>> \o <<safeZoneRect>>

\* the nodes of the stage in paint order
Painted == Concat(Stage)

------------------------------------------------------------------------------
(* Export *)

\* stage.toDataURL({ pixelRatio }): a canvas of the stage's width and height
\* times pixelRatio, every node of every layer of the stage drawn on it under
\* the stage's own transform, scale = { x: previewScale, y: previewScale }
toDataURL(pixelRatio) ==
  [width |-> config.width * pixelRatio, height |-> config.height * pixelRatio,
   painted |-> [i \in 1..Len(Painted) |->
                  [node |-> Painted[i], scale |-> previewScale * pixelRatio]]]

\* an export that clears the selection first, to keep the handles out of the file
handleExportDeselecting(now) ==
  /\ PointerFree
  /\ CanStep
  /\ now \in clock..MaxClock
  /\ selection' = NoSelection
  /\ download' = [name |-> <<"thumbnail-", now, ".png">>, exported |-> TRUE,
                  raster |-> toDataURL(1)]
  /\ clock' = now
  /\ steps' = steps + 1
  /\ UNCHANGED <<previewScale, config, textLayers, imageLayers, nextId, pending, gesture>>

\* handleExport; now is what Date.now() returns
handleExport(now) ==
  /\ PointerFree
  /\ CanStep
  /\ now \in clock..MaxClock
  /\ download' = [name |-> <<"thumbnail-", now, ".png">>, exported |-> TRUE,
                  raster |-> toDataURL(1)]
  /\ clock' = now
  /\ steps' = steps + 1
  /\ UNCHANGED <<previewScale, config, textLayers, imageLayers, selection, nextId,
                 pending, gesture>>

------------------------------------------------------------------------------
(* The specification *)

Next ==
  \/ \E i \in 1..Len(textLayers) : ClickTextButton(i)
  \/ \E i \in 1..Len(imageLayers) : ClickImageButton(i)
  \/ \E i \in 1..Len(textLayers) : ClickTextNode(i)
  \/ \E i \in 1..Len(imageLayers) : ClickImageNode(i)
  \/ DeleteHotkey
  \/ DuplicateHotkey
  \/ handleAddText
  \/ \E file \in Files \cup {NoFile} : handleImageUpload(file)
  \/ \E i \in 1..Len(pending) : ReaderLoad(i)
  \/ \E i \in 1..Len(pending) : ReaderError(i)
  \/ \E raw \in DimensionInputs : WidthInput(raw)
  \/ \E raw \in DimensionInputs : HeightInput(raw)
  \/ SolidFillButton
  \/ GradientFillButton
  \/ \E c \in ColorInputs : SolidColorInput(c)
  \/ \E c \in ColorInputs : GradientStartInput(c)
  \/ \E c \in ColorInputs : GradientEndInput(c)
  \/ \E a \in AngleInputs : GradientAngleInput(a)
  \/ GridCheckbox
  \/ SafeZoneCheckbox
  \/ \E p \in Palettes : PaletteButton(p)
  \/ \E z \in ZoomInputs : ZoomInput(z)
  \/ \E v \in CopyInputs : CopyInput(v)
  \/ \E v \in FontInputs : FontSelect(v)
  \/ \E v \in FontSizeInputs : SizeInput(v)
  \/ \E v \in ColorInputs : FillInput(v)
  \/ \E v \in ColorInputs : StrokeInput(v)
  \/ \E v \in StrokeWidthInputs : StrokeWeightInput(v)
  \/ \E v \in AlignButtons : AlignButton(v)
  \/ UppercaseCheckbox
  \/ BoldCheckbox
  \/ \E v \in TextRotationInputs : TextRotationInput(v)
  \/ \E v \in ShadowOpacityInputs : TextShadowStrengthInput(v)
  \/ \E v \in TextBlurInputs : TextShadowBlurInput(v)
  \/ \E v \in OpacityInputs : OpacityInput(v)
  \/ \E v \in ScaleInputs : ScaleInput(v)
  \/ \E v \in ImageRotationInputs : ImageRotationInput(v)
  \/ \E v \in ShadowOpacityInputs : ImageShadowInput(v)
  \/ \E v \in ImageBlurInputs : ImageBlurInput(v)
  \/ \E i \in 1..Len(textLayers) : TextDragStart(i)
  \/ \E i \in 1..Len(imageLayers) : ImageDragStart(i)
  \/ \E pos \in Positions : DragMove(pos)
  \/ handleDragEnd
  \/ \E natural \in NaturalSizes : TransformStart(natural)
  \/ \E s \in ScaleProposals, pos \in Positions \cup {[x |-> gesture.x, y |-> gesture.y]} :
       ResizeMove(s, pos)
  \/ \E angle \in RotationProposals : RotateMove(angle)
  \/ ImageTransformEnd
  \/ TextTransformEnd
  \/ \E now \in clock..MaxClock : handleExport(now)

Spec == Init /\ [][Next]_vars

\* The two updaters called as commands, with any id: one that a layer of the
\* collection has, one that only the other collection has, one that is gone
\* and one that was never given out.
CommandPatches == { [rotation |-> 15], [x |-> 30, y |-> 40] }

\* updateTextLayer(id, (layer) => ({ ...layer, ...patch }))
updateTextLayer(id, patch) ==
  /\ CanStep
  /\ textLayers' = updateLayer(textLayers, id, patch)
  /\ steps' = steps + 1
  /\ UNCHANGED <<previewScale, config, imageLayers, selection, nextId, pending,
                 gesture, download, clock>>

\* updateImageLayer(id, (layer) => ({ ...layer, ...patch }))
updateImageLayer(id, patch) ==
  /\ CanStep
  /\ imageLayers' = updateLayer(imageLayers, id, patch)
  /\ steps' = steps + 1
  /\ UNCHANGED <<previewScale, config, textLayers, selection, nextId, pending,
                 gesture, download, clock>>

NextCommands ==
  \/ Next
  \/ \E id \in 1..nextId, patch \in CommandPatches : updateTextLayer(id, patch)
  \/ \E id \in 1..nextId, patch \in CommandPatches : updateImageLayer(id, patch)

SpecCommands == Init /\ [][NextCommands]_vars

\* Uploads in flight together, with the commands that can fall between their
\* loads.  The file picker is counted here by the files picked and not by
\* steps, so that two reads are pending while commands are still to come.
\* The gesture that commits here is the drag.
MaxPending == 2     \* files picked in one run

\* handleImageUpload up to reader.readAsDataURL(file), as in handleImageUpload above
handleImageUploadQueued(file) ==
  /\ PointerFree
  /\ Len(pending) + Len(imageLayers) < MaxPending
  /\ pending' = Append(pending, [file |-> file, config |-> config])
  /\ UNCHANGED <<previewScale, config, textLayers, imageLayers, selection, nextId,
                 gesture, download, clock, steps>>

NextUploads ==
  \/ \E file \in Files : handleImageUploadQueued(file)
  \/ \E i \in 1..Len(pending) : ReaderLoad(i)
  \/ \E i \in 1..Len(pending) : ReaderError(i)
  \/ \E i \in 1..Len(textLayers) : ClickTextNode(i)
  \/ \E i \in 1..Len(imageLayers) : ClickImageNode(i)
  \/ DeleteHotkey
  \/ DuplicateHotkey
  \/ handleAddText
  \/ \E id \in 1..nextId, patch \in CommandPatches : updateTextLayer(id, patch)
  \/ \E id \in 1..nextId, patch \in CommandPatches : updateImageLayer(id, patch)
  \/ \E i \in 1..Len(textLayers) : TextDragStart(i)
  \/ \E i \in 1..Len(imageLayers) : ImageDragStart(i)
  \/ \E pos \in Positions : DragMove(pos)
  \/ handleDragEnd

SpecUploads == Init /\ [][NextUploads]_vars

\* The canvas settings alone, with more angles and sizes than Next tries: what
\* gradientPoints is computed from.
GradientDimensionInputs ==
  { <<"1">>, <<"3","6","0">>, <<"6","4","0">>, <<"3","8","4","0">> }

NextGradient ==
  \/ \E raw \in GradientDimensionInputs : WidthInput(raw)
  \/ \E raw \in GradientDimensionInputs : HeightInput(raw)
  \/ \E a \in GradientAngles : GradientAngleInput(a)
  \/ SolidFillButton
  \/ GradientFillButton

SpecGradient == Init /\ [][NextGradient]_vars

------------------------------------------------------------------------------
(* Properties *)

Ids(layers) == {layers[i].id : i \in 1..Len(layers)}

\* C1: in every reachable state the selection is empty or names a type and an
\* id that the collection of that type holds.
SelectionResolves ==
  \/ selection = NoSelection
  \/ selection.type = "text" /\ selection.id \in Ids(textLayers)
  \/ selection.type = "image" /\ selection.id \in Ids(imageLayers)

\* C1 witness: a layer was deleted (the last text layer) and a layer is selected
SelectionAfterDelete ==
  /\ textLayers = <<>>
  /\ selection.type = "image"
  /\ imageLayers # <<>>

\* C2: with a layer selected, the delete hotkey takes exactly that layer out of
\* its collection, leaves every other layer of both collections as it was and
\* in the same order, and empties the selection in the same step.
DeleteRemovesExactlySelected ==
  [][(DeleteHotkey /\ selection # NoSelection) =>
       /\ selection' = NoSelection
       /\ IF selection.type = "text"
            THEN /\ \E i \in 1..Len(textLayers) :
                       /\ textLayers[i].id = selection.id
                       /\ textLayers' = RemoveAt(textLayers, i)
                 /\ imageLayers' = imageLayers
            ELSE /\ \E i \in 1..Len(imageLayers) :
                       /\ imageLayers[i].id = selection.id
                       /\ imageLayers' = RemoveAt(imageLayers, i)
                 /\ textLayers' = textLayers]_vars

\* C2 witness: the first of two text layers was deleted and the second is left
DeletedFirstOfTwo ==
  /\ selection = NoSelection
  /\ Len(textLayers) = 1
  /\ textLayers[1].id = 2
  /\ steps = 2

\* after is before with one layer appended, and that layer is the clone of
\* layer that spec section 4.1 describes
CloneAppended(before, after, layer) ==
  /\ Len(after) = Len(before) + 1
  /\ SubSeq(after, 1, Len(before)) = before
  /\ LET clone == after[Len(after)]
     IN /\ DOMAIN clone = DOMAIN layer
        /\ clone.id # layer.id
        /\ clone.label = layer.label \o <<" ","C","o","p","y">>
        /\ clone.x = layer.x + 40
        /\ clone.y = layer.y + 40
        /\ \A f \in DOMAIN layer \ {"id", "label", "x", "y"} : clone[f] = layer[f]

\* C3: the duplicate hotkey appends to the collection of the selected layer L a
\* layer with another id, the label of L followed by " Copy", x and y of L plus
\* 40 and every other field as L has it, and leaves L and all other layers as
\* they were.
DuplicateAppendsClone ==
  [][(DuplicateHotkey /\ selectedLayer # <<>>) =>
       IF selectedLayer[1].type = "text"
         THEN /\ CloneAppended(textLayers, textLayers', selectedLayer[1])
              /\ imageLayers' = imageLayers
         ELSE /\ CloneAppended(imageLayers, imageLayers', selectedLayer[1])
              /\ textLayers' = textLayers]_vars

\* C3 witness: a text layer whose size was set in the inspector was duplicated
DuplicatedEditedText ==
  /\ Len(textLayers) = 2
  /\ textLayers[1].fontSize = 24
  /\ textLayers[2].fontSize = 24
  /\ textLayers[2].label = textLayers[1].label \o CopySuffix

\* C4: after the duplicate hotkey with L selected, the selection is the clone:
\* the type of L and the id of the layer just appended, which is not the id of L.
SelectionFollowsClone ==
  [][(DuplicateHotkey /\ selectedLayer # <<>>) =>
       LET after == IF selectedLayer[1].type = "text" THEN textLayers' ELSE imageLayers'
       IN /\ selection'.type = selectedLayer[1].type
          /\ selection'.id = after[Len(after)].id
          /\ selection'.id # selectedLayer[1].id
          /\ selection'.id \notin Ids(textLayers) \cup Ids(imageLayers)]_vars

\* C4 witness: an image layer was duplicated and its clone is selected
CloneOfImageSelected ==
  /\ Len(imageLayers) = 2
  /\ imageLayers[2].src = imageLayers[1].src
  /\ selection = [type |-> "image", id |-> imageLayers[2].id]

\* the geometry a layer stores: x, y, rotation and its scale or fontSize
Geometry(layer) ==
  <<layer.x, layer.y, layer.rotation,
    IF layer.type = "text" THEN layer.fontSize ELSE layer.scale>>

\* the geometry of a Konva node
NodeGeometry(node) == <<node.x, node.y, node.rotation, node.scaleX>>

\* the floors of spec section 4.2: 50 x 50 for an image layer, 80 x 40 for text
BelowFloor(type, box) ==
  IF type = "text" THEN box.width < 80 \/ box.height < 40
  ELSE box.width < 50 \/ box.height < 50

TransformEnd == ImageTransformEnd \/ TextTransformEnd

\* the layer of the gesture once the step is taken
GestureLayerAfter ==
  Find(IF gesture.type = "text" THEN textLayers' ELSE imageLayers', gesture.id)

\* C5 as claimed: when the last resize proposal of a gesture was below the
\* floor and turned down, the geometry stored at the end of the gesture is the
\* geometry stored before the gesture.
RejectedResizeRestoresGeometry ==
  [][(TransformEnd /\ gesture.rejected) =>
       Geometry(GestureLayerAfter[1]) = Geometry(GestureLayer[1])]_vars

\* C5 amended: a resize proposal below the floor is turned down, that is the
\* node keeps the box (position, rotation, scale) it had before that proposal
\* and nothing is stored; and a gesture that ends with the node as the layer
\* had it, no proposal having been taken, stores the geometry it found.
RejectedProposalKeepsLastBox ==
  [][/\ \A s \in ScaleProposals, pos \in Positions \cup {[x |-> gesture.x, y |-> gesture.y]} :
          (/\ ResizeMove(s, pos)
           /\ BelowFloor(gesture.type,
                         BoxOf([gesture EXCEPT !.scaleX = s, !.x = pos.x, !.y = pos.y])))
          => /\ NodeGeometry(gesture') = NodeGeometry(gesture)
             /\ UNCHANGED <<textLayers, imageLayers>>
     /\ (/\ TransformEnd
         /\ NodeGeometry(gesture)
              = NodeGeometry(NodeOf(GestureLayer[1], "transform", gesture.natural)))
        => Geometry(GestureLayerAfter[1]) = Geometry(GestureLayer[1])]_vars

\* C5 witness: in one gesture on an image a proposal was taken (scale 0.6 to 2)
\* and the next one, below the floor, was turned down
RejectedAfterAccepted ==
  /\ gesture.kind = "transform"
  /\ gesture.type = "image"
  /\ gesture.moves = 2
  /\ gesture.rejected
  /\ gesture.scaleX = 200

\* C6: in every reachable state every text layer has fontSize >= 10.
FontSizeAtLeastTen ==
  \A i \in 1..Len(textLayers) : textLayers[i].fontSize >= 10

\* C6 witness: a resize by 0.05 was committed on the 168 px layer and the floor
\* is what it stored
FontSizeFloored ==
  /\ gesture = NoGesture
  /\ \E i \in 1..Len(textLayers) : textLayers[i].fontSize = 10

IsImageNode(node) == node.kind = "image"
IsTextNode(node) == node.kind = "text"
LayersOf(nodes) == [i \in 1..Len(nodes) |-> nodes[i].layer]

\* C7: in the composed scene every image layer is painted before (beneath)
\* every text layer, and the layers of each group are painted in the order of
\* their collection.
ImagesBeneathTexts ==
  LET painted == Painted
      imageAt == {i \in 1..Len(painted) : IsImageNode(painted[i])}
      textAt == {j \in 1..Len(painted) : IsTextNode(painted[j])}
  IN /\ \A i \in imageAt : \A j \in textAt : i < j
     /\ LayersOf(SelectSeq(painted, IsImageNode)) = imageLayers
     /\ LayersOf(SelectSeq(painted, IsTextNode)) = textLayers

\* C7 witness: a text layer made before the image layer and one made after it
ImageBetweenTexts ==
  /\ Len(imageLayers) = 1
  /\ Len(textLayers) = 2
  /\ textLayers[1].id < imageLayers[1].id
  /\ imageLayers[1].id < textLayers[2].id

\* C8 as claimed: an exported raster holds no grid overlay, no safe-zone guide
\* and no selection decoration.
ExportHasNoGuides ==
  download.exported =>
    \A i \in 1..Len(download.raster.painted) :
      download.raster.painted[i].node.kind \notin {"grid", "safeZone", "transformer"}

\* C9 as claimed: an exported raster does not depend on the preview zoom: it
\* has the configured width and height and everything on it is drawn at the
\* native scale, 1 (100 hundredths).
ExportAtNativeScale ==
  download.exported =>
    \A i \in 1..Len(download.raster.painted) : download.raster.painted[i].scale = 100

\* C10: an export leaves config, both collections and the selection as they were.
ExportReadsOnly ==
  [][(\E now \in clock..MaxClock : handleExport(now)) => UNCHANGED scene]_vars

\* C10 witness: an export was made with an image layer on the stage and selected
ExportedWithImageSelected ==
  /\ download.exported
  /\ selection.type = "image"
  /\ \E i \in 1..Len(download.raster.painted) :
       download.raster.painted[i].node.kind = "image"

\* the fields of an ImageLayer
ImageLayerFields ==
  {"id", "type", "label", "src", "scale", "rotation", "opacity", "x", "y", "shadow"}

\* one layer was added at the end of the image collection and it has every
\* field of an ImageLayer
OneImageAppended ==
  /\ Len(imageLayers') = Len(imageLayers) + 1
  /\ SubSeq(imageLayers', 1, Len(imageLayers)) = imageLayers
  /\ DOMAIN imageLayers'[Len(imageLayers')] = ImageLayerFields
  /\ imageLayers'[Len(imageLayers')].id \notin Ids(imageLayers) \cup Ids(textLayers)
  /\ UNCHANGED <<config, textLayers>>

\* C11 as claimed: picking a file changes nothing in the scene; an upload that
\* fails (the read fails, or the data does not decode to an image) inserts no
\* image layer; an upload that succeeds inserts exactly one image layer, with
\* every field, in one step.
UploadInsertsOnlyOnSuccess ==
  [][/\ (\E file \in Files \cup {NoFile} : handleImageUpload(file)) => UNCHANGED scene
     /\ \A i \in 1..Len(pending) :
          /\ ReaderError(i) => UNCHANGED scene
          /\ (ReaderLoad(i) /\ useKonvaImage(pending[i].file.data) = <<>>)
               => imageLayers' = imageLayers
          /\ (ReaderLoad(i) /\ useKonvaImage(pending[i].file.data) # <<>>)
               => OneImageAppended]_vars

\* C12 as claimed: when the data of an upload does not decode to an image, the
\* scene (config, both collections, selection) is after the attempt exactly
\* what it was before it.
UndecodableUploadLeavesScene ==
  [][\A i \in 1..Len(pending) :
       (ReaderLoad(i) /\ useKonvaImage(pending[i].file.data) = <<>>)
         => UNCHANGED scene]_vars

\* C13: in every reachable state the ids of all layers are pairwise distinct
\* across the union of the text and the image collection.
IdsUnique ==
  LET all == textLayers \o imageLayers
  IN \A i, j \in 1..Len(all) : all[i].id = all[j].id => i = j

\* C13 witness: layers from three creation paths together: the initial layer,
\* its duplicate and an uploaded image
ThreeCreationPaths ==
  /\ Len(textLayers) = 2
  /\ textLayers[2].label = textLayers[1].label \o CopySuffix
  /\ Len(imageLayers) = 1

\* C14 as claimed: whenever a drag, resize or rotate gesture is committed for a
\* layer, the selection references that layer.
GestureCommitsOnSelected ==
  [][(handleDragEnd \/ TransformEnd)
       => selection' = [type |-> gesture.type, id |-> gesture.id]]_vars

\* C15 as claimed: in every reachable state the canvas has width > 0 and
\* height > 0.
CanvasSizePositive == config.width > 0 /\ config.height > 0

\* C16: with no selection the delete command and the duplicate command change
\* nothing: both collections and the empty selection are as before.
HotkeysIdleWithoutSelection ==
  [][(selection = NoSelection /\ (DeleteHotkey \/ DuplicateHotkey))
       => UNCHANGED <<textLayers, imageLayers, selection>>]_vars

\* C16 witness: nothing is selected, a delete having cleared the selection, and
\* there still is a layer the hotkeys could act on
IdleAfterDeleteWithLayer ==
  /\ selection = NoSelection
  /\ textLayers = <<>>
  /\ imageLayers # <<>>

\* C17: an update addressed to an id the addressed collection does not hold
\* leaves both collections as they were, contents and order: no layer is
\* changed and none is created.
AbsentIdIsNoOp ==
  [][\A id \in 1..nextId, patch \in CommandPatches :
       /\ (updateTextLayer(id, patch) /\ id \notin Ids(textLayers))
            => UNCHANGED <<textLayers, imageLayers>>
       /\ (updateImageLayer(id, patch) /\ id \notin Ids(imageLayers))
            => UNCHANGED <<textLayers, imageLayers>>]_vars

\* C17 witness: the first layer was deleted, which makes its id stale, and one
\* more command was issued that left the scene as the delete left it
StaleIdAfterDelete ==
  /\ textLayers = <<>>
  /\ imageLayers = <<>>
  /\ selection = NoSelection
  /\ config = InitialConfig
  /\ steps = 2

\* C18 as claimed: in every reachable state the rotation of each text layer is
\* within [-45, 45] and the rotation of each image layer within [-60, 60].
RotationWithinLimits ==
  /\ \A i \in 1..Len(textLayers) :
       textLayers[i].rotation >= -45 /\ textLayers[i].rotation <= 45
  /\ \A i \in 1..Len(imageLayers) :
       imageLayers[i].rotation >= -60 /\ imageLayers[i].rotation <= 60

\* C19: changing the preview zoom leaves config, both collections and the
\* selection as they were.
ZoomKeepsScene ==
  [][(\E z \in ZoomInputs : ZoomInput(z)) => UNCHANGED scene]_vars

\* C19 witness: the zoom was changed with an image layer on the stage and selected
ZoomedWithImageSelected ==
  /\ previewScale # 45
  /\ selection.type = "image"
  /\ imageLayers # <<>>

\* r is s with every lower-case letter replaced by its capital
IsUpperCaseOf(r, s) ==
  /\ Len(r) = Len(s)
  /\ \A i \in 1..Len(s) :
       IF \E k \in 1..Len(LowerCase) : LowerCase[k] = s[i]
         THEN \E k \in 1..Len(LowerCase) : LowerCase[k] = s[i] /\ UpperCase[k] = r[i]
         ELSE r[i] = s[i]

\* C20: the uppercase flag affects rendering only: the text on the stage is the
\* stored text in capitals when the flag is set and the stored text verbatim
\* when it is not, and toggling the flag changes that one field of that one
\* layer and nothing else, the stored text included.
UppercaseIsRenderingOnly ==
  /\ [](LET rendered == SelectSeq(Painted, IsTextNode)
        IN /\ Len(rendered) = Len(textLayers)
           /\ \A i \in 1..Len(textLayers) :
                IF textLayers[i].uppercase
                  THEN IsUpperCaseOf(rendered[i].text, textLayers[i].text)
                  ELSE rendered[i].text = textLayers[i].text)
  /\ [][UppercaseCheckbox =>
          /\ Len(textLayers') = Len(textLayers)
          /\ \A i \in 1..Len(textLayers) :
               /\ [textLayers'[i] EXCEPT !.uppercase = textLayers[i].uppercase]
                    = textLayers[i]
               /\ (textLayers'[i].uppercase # textLayers[i].uppercase)
                    <=> (textLayers[i].id = selection.id)
          /\ UNCHANGED <<config, imageLayers, selection>>]_vars

\* C20 witness: the flag of the added layer was cleared; its text, which has
\* small letters, is stored as it was typed
FlagClearedTextKept ==
  \E i \in 1..Len(textLayers) :
    /\ ~textLayers[i].uppercase
    /\ textLayers[i].text = <<"N","e","w"," ","H","o","o","k">>

\* the distance of a point from the centre of the canvas, in half pixels
FromCentre(point) ==
  LET dx == point.x - config.width
      dy == point.y - config.height
  IN MathSqrt(dx * dx + dy * dy)

\* C21: for a canvas of positive width and height the two endpoints rendered
\* for the gradient add up to (width, height), which makes them symmetric about
\* the centre, and each lies at the distance of half the diagonal from the
\* centre, to the one pixel that rounding to half pixels allows.
GradientEndpointsSymmetric ==
  (config.backgroundMode = "gradient" /\ config.width > 0 /\ config.height > 0) =>
    LET start == backgroundRect.points[1]
        end == backgroundRect.points[2]
        diagonal == MathSqrt(config.width * config.width + config.height * config.height)
    IN /\ start.x + end.x = config.width * 2
       /\ start.y + end.y = config.height * 2
       /\ FromCentre(start) - diagonal \in -2..2
       /\ FromCentre(end) - diagonal \in -2..2

\* C21 witness: a gradient that is neither level nor upright on a canvas that
\* is not the initial one
SlantedGradientOnWideCanvas ==
  /\ config.backgroundMode = "gradient"
  /\ config.gradientAngle = -135
  /\ config.width = 3840
  /\ config.height = 720

\* a move of one of the four shadow controls of the inspector
ShadowControlStep ==
  \/ \E v \in ShadowOpacityInputs : TextShadowStrengthInput(v) \/ ImageShadowInput(v)
  \/ \E v \in TextBlurInputs : TextShadowBlurInput(v)
  \/ \E v \in ImageBlurInputs : ImageBlurInput(v)

\* what the four controls write into the shadow of the selected layer
ShadowPatches ==
  {[opacity |-> v] : v \in ShadowOpacityInputs} \cup
  {[blur |-> v] : v \in TextBlurInputs \cup ImageBlurInputs}

\* the layer with its shadow left out
WithoutShadow(layer) == [f \in DOMAIN layer \ {"shadow"} |-> layer[f]]

\* what a shadow control leaves alone in one collection: every layer that is
\* not the selected one, and every field but shadow of the selected one
OnlySelectedShadow(before, after, type) ==
  /\ Len(after) = Len(before)
  /\ \A i \in 1..Len(before) :
       IF selection = [type |-> type, id |-> before[i].id]
         THEN WithoutShadow(after[i]) = WithoutShadow(before[i])
         ELSE after[i] = before[i]

\* C22: a shadow control changes the shadow of the selected layer and of no
\* other layer, duplicates and their originals included; no shadow is shared.
ShadowsIndependent ==
  [][ShadowControlStep =>
       /\ OnlySelectedShadow(textLayers, textLayers', "text")
       /\ OnlySelectedShadow(imageLayers, imageLayers', "image")
       /\ \E patch \in ShadowPatches :
            selectedLayer'[1].shadow = Spread(selectedLayer[1].shadow, patch)]_vars

\* C22 witness: a duplicate and its original with shadows that differ
CloneShadowDiffersFromOriginal ==
  /\ Len(textLayers) = 2
  /\ textLayers[2].label = textLayers[1].label \o CopySuffix
  /\ textLayers[2].shadow # textLayers[1].shadow

\* the layers of before are found in after at their old positions with their
\* old ids, or, when after is shorter, after holds ids of before only
KeepsIds(before, after) ==
  IF Len(after) >= Len(before)
    THEN \A i \in 1..Len(before) : after[i].id = before[i].id
    ELSE Ids(after) \subseteq Ids(before)

\* C23: the text collection holds layers of type text only and the image
\* collection layers of type image only, and no step (update, drag, resize,
\* rotate, duplicate, creation, delete) changes the id of a layer that stays.
LayerIdsImmutable ==
  /\ [](/\ \A i \in 1..Len(textLayers) : textLayers[i].type = "text"
        /\ \A i \in 1..Len(imageLayers) : imageLayers[i].type = "image")
  /\ [][/\ KeepsIds(textLayers, textLayers')
        /\ KeepsIds(imageLayers, imageLayers')]_vars

\* C23 witness: the first layer was dragged and then duplicated, and has the
\* id it was created with
DraggedThenDuplicated ==
  /\ Len(textLayers) = 2
  /\ textLayers[1].id = 1
  /\ textLayers[1].x = 10
  /\ textLayers[2].label = textLayers[1].label \o CopySuffix
  /\ textLayers[2].id # textLayers[1].id

\* the position of the layer of the given id
PositionOf(layers, id) == CHOOSE i \in 1..Len(layers) : layers[i].id = id

\* the layers found in before and in after stand in the same order in both,
\* and the layers found in after only stand behind all of them
KeepsOrder(before, after) ==
  /\ \A a, b \in Ids(before) \cap Ids(after) :
       (PositionOf(before, a) < PositionOf(before, b))
         <=> (PositionOf(after, a) < PositionOf(after, b))
  /\ \A a \in Ids(before) \cap Ids(after) : \A b \in Ids(after) \ Ids(before) :
       PositionOf(after, a) < PositionOf(after, b)

\* C24: in each collection a created layer is put behind the layers already
\* there, and no step changes the order in which the remaining layers stand.
InsertionOrderKept ==
  [][/\ KeepsOrder(textLayers, textLayers')
     /\ KeepsOrder(imageLayers, imageLayers')]_vars

\* C24 witness: a text layer was added and the layer before it was then
\* updated through the inspector; the older layer still stands first
OlderLayerUpdatedStaysFirst ==
  /\ Len(textLayers) = 2
  /\ textLayers[1].id < textLayers[2].id
  /\ textLayers[1].label # textLayers[2].label \o CopySuffix
  /\ textLayers[2] = NewTextLayer(textLayers[2].id, config)
  /\ textLayers[1] # InitialTextLayer(1)

StoredBox(layer, natural) == BoxOf(NodeOf(layer, "transform", natural))

\* a is to b as the side of the box at the end is to the side of the box at
\* the start, each side being cut to whole pixels (a side is less than one
\* pixel short, so the products differ by less than a + b)
InProportion(a, start, b, end) ==
  LET difference == a * start - b * end
  IN difference < a + b /\ 0 - difference < a + b

\* C26: every stored image scale is above 0, and the end of an image transform
\* stores the scale before it times the factor of the box: the stored scale is
\* to the one before as the width of the box at the end is to the width of the
\* box at the start, and as the heights are, one factor for both axes.
ImageResizeMultipliesScale ==
  /\ [](\A i \in 1..Len(imageLayers) : imageLayers[i].scale > 0)
  /\ [][ImageTransformEnd =>
          LET before == GestureLayer[1]
              after == Find(imageLayers', gesture.id)[1]
              startBox == StoredBox(before, gesture.natural)
              endBox == BoxOf(gesture)
          IN /\ InProportion(after.scale, startBox.width, before.scale, endBox.width)
             /\ InProportion(after.scale, startBox.height, before.scale, endBox.height)
             /\ StoredBox(after, gesture.natural).width = endBox.width
             /\ StoredBox(after, gesture.natural).height = endBox.height]_vars

\* C26 witness: an uploaded image, stored at 0.6, after a resize that doubled
\* its natural size
ImageResizedToDouble ==
  /\ gesture = NoGesture
  /\ Len(imageLayers) = 1
  /\ imageLayers[1].scale = 200

\* the collection with the position of the layer of the gesture replaced by
\* the position the gesture ended at, and nothing else changed
Moved(layers) ==
  [i \in 1..Len(layers) |->
     IF layers[i].id = gesture.id
       THEN [layers[i] EXCEPT !.x = gesture.x, !.y = gesture.y]
       ELSE layers[i]]

\* C27: the end of a drag writes the final position of the node into x and y
\* of the dragged layer as stored at that moment, and changes no other field of
\* it, no other layer, nothing of the other collection and nothing of config.
DragWritesPositionOnly ==
  [][handleDragEnd =>
       /\ config' = config
       /\ IF gesture.type = "text"
            THEN textLayers' = Moved(textLayers) /\ imageLayers' = imageLayers
            ELSE imageLayers' = Moved(imageLayers) /\ textLayers' = textLayers]_vars

\* C27 witness: the first layer was dragged to (10, 20) and given the rotation
\* 15 by an update command before the drag ended; it holds both
DraggedLayerKeepsUpdate ==
  /\ gesture = NoGesture
  /\ steps = 2
  /\ Len(textLayers) = 1
  /\ textLayers[1] = [InitialTextLayer(1) EXCEPT !.x = 10, !.y = 20, !.rotation = 15]

\* the start of a gesture and the pointer moves in it
GestureMotion ==
  \/ \E i \in 1..Len(textLayers) : TextDragStart(i)
  \/ \E i \in 1..Len(imageLayers) : ImageDragStart(i)
  \/ \E pos \in Positions : DragMove(pos)
  \/ \E natural \in NaturalSizes : TransformStart(natural)
  \/ \E s \in ScaleProposals, pos \in Positions \cup {[x |-> gesture.x, y |-> gesture.y]} :
       ResizeMove(s, pos)
  \/ \E angle \in RotationProposals : RotateMove(angle)

\* C28: the start of a gesture and the motion in it leave both collections as
\* they are; the store is written by the end of the gesture, in the step that
\* also ends the gesture, so once for each gesture.
StoreWrittenAtGestureEnd ==
  /\ [][GestureMotion => UNCHANGED <<textLayers, imageLayers>>]_vars
  /\ [][(handleDragEnd \/ TransformEnd) => gesture' = NoGesture]_vars

\* C28 witness: a drag in progress, the node moved by the pointer and the
\* stored layer still where it was
NodeMovedStoreNot ==
  /\ gesture.kind = "drag"
  /\ gesture.moves > 0
  /\ GestureLayer # <<>>
  /\ gesture.x # GestureLayer[1].x

\* C29 as claimed: an export that follows another export in the session hands
\* the browser a file name that differs from the name of the one before.
ExportNamesDistinct ==
  [][((\E now \in clock..MaxClock : handleExport(now)) /\ download.exported)
       => download'.name # download.name]_vars

\* the layer at the end of after is not in before and is the selection
NewLayerSelected(before, after, type) ==
  /\ Len(after) = Len(before) + 1
  /\ after[Len(after)].id \notin Ids(before)
  /\ selection' = [type |-> type, id |-> after[Len(after)].id]

\* C30: Add Text Layer makes the text layer it creates the selection, and the
\* load of a picked file makes the image layer it creates the selection,
\* whatever was selected before, a selection made after the file was picked
\* included.
CreationSelectsNewLayer ==
  [][/\ handleAddText => NewLayerSelected(textLayers, textLayers', "text")
     /\ \A i \in 1..Len(pending) :
          ReaderLoad(i) => NewLayerSelected(imageLayers, imageLayers', "image")]_vars

\* C30 witness: a text layer was added, which selected it, and a picked file
\* loaded after that; the image layer is the selection
LoadReplacedTextSelection ==
  /\ pending = <<>>
  /\ Len(textLayers) = 2
  /\ Len(imageLayers) = 1
  /\ textLayers[2] = NewTextLayer(textLayers[2].id, config)
  /\ imageLayers[1].id > textLayers[2].id
  /\ selection = [type |-> "image", id |-> imageLayers[1].id]

\* C31 as claimed: the image layer a load inserts stands at the centre of the
\* canvas as configured when it is inserted, x = width / 2 and y = height / 2
\* of the config of that moment.
UploadCentredOnCurrentCanvas ==
  [][\A i \in 1..Len(pending) :
       ReaderLoad(i) =>
         LET layer == imageLayers'[Len(imageLayers')]
         IN /\ layer.x = config.width \div 2
            /\ layer.y = config.height \div 2]_vars

\* C32: with reads pending together and commands falling between their loads,
\* every load leaves the image layers that are there as they are, fields
\* changed in the meantime included, and puts one layer behind them, made from
\* the file of the read that finished; it changes no text layer, nothing of
\* config, and leaves the other reads pending.
LoadsAppendInResolutionOrder ==
  [][\A i \in 1..Len(pending) :
       ReaderLoad(i) =>
         /\ Len(imageLayers') = Len(imageLayers) + 1
         /\ \A k \in 1..Len(imageLayers) : imageLayers'[k] = imageLayers[k]
         /\ imageLayers'[Len(imageLayers')].src = pending[i].file.data
         /\ imageLayers'[Len(imageLayers')].label = StripExtension(pending[i].file.name)
         /\ textLayers' = textLayers
         /\ config' = config
         /\ Len(pending') = Len(pending) - 1]_vars

\* C32 witness: two files were picked; the first to load was then rotated by
\* an update command and a text layer was added before the second loaded.
\* Both image layers are there, in the order they loaded, with the rotation.
SecondLoadKeepsInterleavedChanges ==
  /\ pending = <<>>
  /\ Len(imageLayers) = 2
  /\ Len(textLayers) = 2
  /\ imageLayers[1].id < textLayers[2].id
  /\ textLayers[2].id < imageLayers[2].id
  /\ imageLayers[1].rotation = 15
  /\ imageLayers[2].rotation = 0
  /\ imageLayers[1].src # imageLayers[2].src

====
